---- MODULE Spec2Model ----
(***************************************************************************)
(* ReActAgentStepEngine (llama_index/agent/v1/react.py): the step engine   *)
(* of the ReAct agent as a state machine over one task.  The collaborators *)
(* (model, output parser, tools, retriever, memory) are inputs drawn from  *)
(* small sets; the engine's own code is translated statement by statement. *)
(***************************************************************************)
EXTENDS Naturals, Sequences, FiniteSets

(* ------------------------------ bounds --------------------------------- *)

\* number of run_step / arun_step calls the driver makes on the task
MaxSteps == 3

\* largest max_iterations the engine is constructed with (1..MaxCap)
MaxCap == 4

(* ------------------------- values of the inputs ------------------------ *)

None == "None"

\* tools argument of the constructor: a sequence of tools (a tool is its name)
ToolLists == {<< >>, <<"search">>, <<"search", "calc">>}

\* tool_retriever argument of the constructor
Retrievers == {None, "retriever"}

TaskInputs == {"q1", "q2"}

\* str()-able results of a tool call
ToolOutputs == {[content |-> "result-y", raw |-> 1], [content |-> "result-z", raw |-> 2]}

\* what tool.call / tool.acall does: return an output or raise
ToolResults == {[raised |-> FALSE, output |-> o] : o \in ToolOutputs}
                 \cup {[raised |-> TRUE, output |-> None]}

\* message contents the model can answer with (None: no text content)
Contents == {None, "Answer: 42", "Action: search", "Action: calc",
             "Action: nonexistent", "Observation: stray", "garbage"}

ChatResponses == {[content |-> c] : c \in Contents}

(* ------------------------- reasoning step types ------------------------ *)

ActionReasoningStep(thought, action, action_input) ==
    [type |-> "Action", thought |-> thought, action |-> action,
     action_input |-> action_input]

ObservationReasoningStep(observation) ==
    [type |-> "Observation", observation |-> observation]

ResponseReasoningStep(thought, response) ==
    [type |-> "Response", thought |-> thought, response |-> response]

\* BaseReasoningStep.is_done
is_done(s) == s.type = "Response"

\* BaseReasoningStep.get_content
get_content(s) ==
    CASE s.type = "Action" ->
           "Thought: " \o s.thought \o " Action: " \o s.action
             \o " Action Input: " \o s.action_input
      [] s.type = "Observation" -> "Observation: " \o s.observation
      [] s.type = "Response" ->
           "Thought: " \o s.thought \o " Response: " \o s.response

\* ToolOutput.__str__
str(tool_output) == tool_output.content

\* ReActOutputParser.parse: a reasoning step, or an error on malformed text
parse(message_content) ==
    CASE message_content = "Answer: 42" ->
           [ok |-> TRUE, step |-> ResponseReasoningStep("done", "42")]
      [] message_content = "Action: search" ->
           [ok |-> TRUE, step |-> ActionReasoningStep("look", "search", "q=x")]
      [] message_content = "Action: calc" ->
           [ok |-> TRUE, step |-> ActionReasoningStep("sum", "calc", "a=1")]
      [] message_content = "Action: nonexistent" ->
           [ok |-> TRUE, step |-> ActionReasoningStep("try", "nonexistent", "z=0")]
      [] message_content = "Observation: stray" ->
           [ok |-> TRUE, step |-> ObservationReasoningStep("stray")]
      [] OTHER -> [ok |-> FALSE, step |-> None]

\* ObjectRetriever.retrieve
retrieve(message) == IF message = "q1" THEN <<"search">> ELSE << >>

\* ToolMetadata.get_name / ToolMetadata.name
get_name(tool) == tool

\* adapt_to_async_tool
adapt_to_async_tool(t) == t

ChatMessage(content, role) == [content |-> content, role |-> role]

(* ------------------------------- errors -------------------------------- *)

NoError == "NoError"
AmbiguousToolSource  == "AmbiguousToolSource"    \* ValueError, line 76
EmptyModelOutput     == "EmptyModelOutput"       \* ValueError, line 158
ReasoningParseError  == "ReasoningParseError"    \* ValueError, line 164
UnexpectedStepType   == "UnexpectedStepType"     \* ValueError, line 174
UnknownTool          == "UnknownTool"            \* KeyError, lines 197 / 233
ToolExecutionError   == "ToolExecutionError"     \* raised by tool.call
NoReasoningSteps     == "NoReasoningSteps"       \* ValueError, line 259
MaxIterationsReached == "MaxIterationsReached"   \* ValueError, line 261
UnsupportedStreaming == "UnsupportedStreaming"   \* NotImplementedError

(* -------------------------------- state -------------------------------- *)

VARIABLES
    tools_arg,          \* constructor argument tools
    tool_retriever,     \* constructor argument tool_retriever
    max_iterations,     \* self._max_iterations
    engine,             \* "new", "constructed" or "failed" (constructor raised)
    _get_tools,         \* self._get_tools: "fixed", "retriever", "empty" or None
    task_input,         \* task.input
    memory,             \* task.memory: the conversation turns
    memory0,            \* the turns memory held when the task was created
    initialized,        \* initialize_step has made the task's first step
    sources,            \* step_state["sources"], shared by the task's steps
    current_reasoning,  \* step_state["current_reasoning"], shared likewise
    n_created,          \* number of TaskStep objects made for the task
    n_steps,            \* number of run_step / arun_step calls made
    n_tool_calls,       \* number of tool.call / tool.acall invocations made
    cap_raised,         \* a step of the task has raised MaxIterationsReached
    finished,           \* a step of the task has returned is_last = true
    script,             \* shape of what model and tools have answered so far
    last,               \* what the last call returned or raised
    heap,               \* the step_state objects made so far, by reference
    tasks               \* the tasks run side by side on the engine

vars == <<tools_arg, tool_retriever, max_iterations, engine, _get_tools,
          task_input, memory, memory0, initialized, sources,
          current_reasoning, n_created, n_steps, n_tool_calls, cap_raised,
          finished, script, last, heap, tasks>>

config == <<tools_arg, tool_retriever, max_iterations, task_input, memory0>>

CancelledError == "CancelledError"    \* raised at an await when cancelled

\* the tasks run side by side, and the input of each
TaskIds == {"t1", "t2"}

TaskInput(t) == IF t = "t1" THEN "q1" ELSE "q2"

\* a task no step of which has been made: its memory, the step_state
\* reference of each of its TaskSteps, where its running step is suspended
\* (pc), the step being run, the model answer held while the tool is awaited,
\* the state the running step found, the answers its finished steps got and
\* what its last call returned or raised
NewTask(input) ==
    [input |-> input, memory |-> << >>, steps |-> << >>, pc |-> "idle",
     step |-> 0, pending |-> [content |-> None],
     at_call |-> [sources |-> << >>, current_reasoning |-> << >>,
                  memory |-> << >>],
     log |-> << >>,
     out |-> [error |-> NoError, is_last |-> FALSE, at |-> "idle"]]

\* the record kept of the last call
NoStep == [type |-> None]

Outcome(op, error, is_last, next_steps, response, parsed, tool_called, out_sources) ==
    [op |-> op, error |-> error, is_last |-> is_last,
     next_steps |-> next_steps, response |-> response, parsed |-> parsed,
     tool_called |-> tool_called, sources |-> out_sources]

NoOutcome == Outcome(None, NoError, FALSE, << >>, None, NoStep, FALSE, << >>)

(* ---------------------- the engine's pure parts ------------------------- *)

\* get_tools: the tools self._get_tools(input) resolves, each adapted
get_tools(mode, tools, input) ==
    LET resolved == CASE mode = "fixed" -> tools
                      [] mode = "retriever" -> retrieve(input)
                      [] OTHER -> << >>
    IN  [i \in 1..Len(resolved) |-> adapt_to_async_tool(resolved[i])]

\* _extract_reasoning_step returning a terminal step without putting it in
\* the list
_extract_reasoning_step_NoAppend(output) ==
    IF output.content = None
    THEN [error |-> EmptyModelOutput, current_reasoning |-> << >>, is_done |-> FALSE]
    ELSE LET parsed == parse(output.content) IN
         IF ~parsed.ok
         THEN [error |-> ReasoningParseError, current_reasoning |-> << >>,
               is_done |-> FALSE]
         ELSE IF is_done(parsed.step)
         THEN [error |-> NoError, current_reasoning |-> << >>, is_done |-> TRUE]
         ELSE IF parsed.step.type # "Action"
         THEN [error |-> UnexpectedStepType, current_reasoning |-> << >>,
               is_done |-> FALSE]
         ELSE [error |-> NoError, current_reasoning |-> <<parsed.step>>,
               is_done |-> FALSE]

\* _extract_reasoning_step falling back to the raw text as the final answer
\* when the parser rejects it
_extract_reasoning_step_Fallback(output) ==
    IF output.content = None
    THEN [error |-> EmptyModelOutput, current_reasoning |-> << >>, is_done |-> FALSE]
    ELSE LET parsed == parse(output.content) IN
         IF ~parsed.ok
         THEN [error |-> NoError,
               current_reasoning |->
                   <<ResponseReasoningStep("fallback", output.content)>>,
               is_done |-> TRUE]
         ELSE IF is_done(parsed.step)
         THEN [error |-> NoError, current_reasoning |-> <<parsed.step>>,
               is_done |-> TRUE]
         ELSE IF parsed.step.type # "Action"
         THEN [error |-> UnexpectedStepType, current_reasoning |-> << >>,
               is_done |-> FALSE]
         ELSE [error |-> NoError, current_reasoning |-> <<parsed.step>>,
               is_done |-> FALSE]

\* _extract_reasoning_step: the parsed step in a new list, and is_done
_extract_reasoning_step(output) ==
    IF output.content = None
    THEN [error |-> EmptyModelOutput, current_reasoning |-> << >>, is_done |-> FALSE]
    ELSE LET parsed == parse(output.content) IN
         IF ~parsed.ok
         THEN [error |-> ReasoningParseError, current_reasoning |-> << >>,
               is_done |-> FALSE]
         ELSE IF is_done(parsed.step)
         THEN [error |-> NoError, current_reasoning |-> <<parsed.step>>,
               is_done |-> TRUE]
         ELSE IF parsed.step.type # "Action"
         THEN [error |-> UnexpectedStepType, current_reasoning |-> << >>,
               is_done |-> FALSE]
         ELSE [error |-> NoError, current_reasoning |-> <<parsed.step>>,
               is_done |-> FALSE]

\* CallTool without the observation step
CallTool_NoObservation(step_sources, tools_dict, extracted, tool_result) ==
    LET reasoning_step == extracted.current_reasoning[Len(extracted.current_reasoning)] IN
    IF reasoning_step.action \notin tools_dict
    THEN [error |-> UnknownTool, current_reasoning |-> << >>, is_done |-> FALSE,
          sources |-> step_sources, tool_called |-> FALSE]
    ELSE IF tool_result.raised
    THEN [error |-> ToolExecutionError, current_reasoning |-> << >>,
          is_done |-> FALSE, sources |-> step_sources, tool_called |-> TRUE]
    ELSE [error |-> NoError,
          current_reasoning |-> extracted.current_reasoning,
          is_done |-> FALSE,
          sources |-> Append(step_sources, tool_result.output),
          tool_called |-> TRUE]

\* CallTool catching the tool's exception and reporting it as an observation
CallTool_CatchError(step_sources, tools_dict, extracted, tool_result) ==
    LET reasoning_step == extracted.current_reasoning[Len(extracted.current_reasoning)] IN
    IF reasoning_step.action \notin tools_dict
    THEN [error |-> UnknownTool, current_reasoning |-> << >>, is_done |-> FALSE,
          sources |-> step_sources, tool_called |-> FALSE]
    ELSE IF tool_result.raised
    THEN [error |-> NoError,
          current_reasoning |->
              Append(extracted.current_reasoning,
                     ObservationReasoningStep("Error: tool failed")),
          is_done |-> FALSE, sources |-> step_sources, tool_called |-> TRUE]
    ELSE [error |-> NoError,
          current_reasoning |->
              Append(extracted.current_reasoning,
                     ObservationReasoningStep(str(tool_result.output))),
          is_done |-> FALSE,
          sources |-> Append(step_sources, tool_result.output),
          tool_called |-> TRUE]

\* CallTool putting the new tool output in front of sources
CallTool_Prepend(step_sources, tools_dict, extracted, tool_result) ==
    LET reasoning_step == extracted.current_reasoning[Len(extracted.current_reasoning)] IN
    IF reasoning_step.action \notin tools_dict
    THEN [error |-> UnknownTool, current_reasoning |-> << >>, is_done |-> FALSE,
          sources |-> step_sources, tool_called |-> FALSE]
    ELSE IF tool_result.raised
    THEN [error |-> ToolExecutionError, current_reasoning |-> << >>,
          is_done |-> FALSE, sources |-> step_sources, tool_called |-> TRUE]
    ELSE [error |-> NoError,
          current_reasoning |->
              Append(extracted.current_reasoning,
                     ObservationReasoningStep(str(tool_result.output))),
          is_done |-> FALSE,
          sources |-> <<tool_result.output>> \o step_sources,
          tool_called |-> TRUE]

\* CallTool with the lookup failure swallowed: an unknown tool yields an
\* observation instead of raising
CallTool_Swallow(step_sources, tools_dict, extracted, tool_result) ==
    LET reasoning_step == extracted.current_reasoning[Len(extracted.current_reasoning)] IN
    IF reasoning_step.action \notin tools_dict
    THEN [error |-> NoError,
          current_reasoning |->
              Append(extracted.current_reasoning,
                     ObservationReasoningStep("unknown tool")),
          is_done |-> FALSE, sources |-> step_sources, tool_called |-> FALSE]
    ELSE IF tool_result.raised
    THEN [error |-> ToolExecutionError, current_reasoning |-> << >>,
          is_done |-> FALSE, sources |-> step_sources, tool_called |-> TRUE]
    ELSE [error |-> NoError,
          current_reasoning |->
              Append(extracted.current_reasoning,
                     ObservationReasoningStep(str(tool_result.output))),
          is_done |-> FALSE,
          sources |-> Append(step_sources, tool_result.output),
          tool_called |-> TRUE]

\* the tail of _process_actions from the tool lookup on (lines 196-214)
CallTool(step_sources, tools_dict, extracted, tool_result) ==
    LET reasoning_step == extracted.current_reasoning[Len(extracted.current_reasoning)] IN
    IF reasoning_step.action \notin tools_dict
    THEN [error |-> UnknownTool, current_reasoning |-> << >>, is_done |-> FALSE,
          sources |-> step_sources, tool_called |-> FALSE]
    ELSE IF tool_result.raised
    THEN [error |-> ToolExecutionError, current_reasoning |-> << >>,
          is_done |-> FALSE, sources |-> step_sources, tool_called |-> TRUE]
    ELSE [error |-> NoError,
          current_reasoning |->
              Append(extracted.current_reasoning,
                     ObservationReasoningStep(str(tool_result.output))),
          is_done |-> FALSE,
          sources |-> Append(step_sources, tool_result.output),
          tool_called |-> TRUE]

\* _process_actions (blocking): tools_dict is keyed by metadata.get_name()
_process_actions(step_sources, tools, output, tool_result) ==
    LET tools_dict == {get_name(tools[i]) : i \in 1..Len(tools)}
        extracted == _extract_reasoning_step(output)
    IN  IF extracted.error # NoError
        THEN [error |-> extracted.error, current_reasoning |-> << >>,
              is_done |-> FALSE, sources |-> step_sources, tool_called |-> FALSE]
        ELSE IF extracted.is_done
        THEN [error |-> NoError, current_reasoning |-> extracted.current_reasoning,
              is_done |-> TRUE, sources |-> step_sources, tool_called |-> FALSE]
        ELSE CallTool(step_sources, tools_dict, extracted, tool_result)

\* ACallTool without the append to sources
ACallTool_NoSource(step_sources, tools_dict, extracted, tool_result) ==
    LET reasoning_step == extracted.current_reasoning[Len(extracted.current_reasoning)] IN
    IF reasoning_step.action \notin tools_dict
    THEN [error |-> UnknownTool, current_reasoning |-> << >>, is_done |-> FALSE,
          sources |-> step_sources, tool_called |-> FALSE]
    ELSE IF tool_result.raised
    THEN [error |-> ToolExecutionError, current_reasoning |-> << >>,
          is_done |-> FALSE, sources |-> step_sources, tool_called |-> TRUE]
    ELSE [error |-> NoError,
          current_reasoning |->
              Append(extracted.current_reasoning,
                     ObservationReasoningStep(str(tool_result.output))),
          is_done |-> FALSE,
          sources |-> step_sources,
          tool_called |-> TRUE]

\* the tail of _aprocess_actions from the tool lookup on (lines 232-250)
ACallTool(step_sources, tools_dict, extracted, tool_result) ==
    LET reasoning_step == extracted.current_reasoning[Len(extracted.current_reasoning)] IN
    IF reasoning_step.action \notin tools_dict
    THEN [error |-> UnknownTool, current_reasoning |-> << >>, is_done |-> FALSE,
          sources |-> step_sources, tool_called |-> FALSE]
    ELSE IF tool_result.raised
    THEN [error |-> ToolExecutionError, current_reasoning |-> << >>,
          is_done |-> FALSE, sources |-> step_sources, tool_called |-> TRUE]
    ELSE [error |-> NoError,
          current_reasoning |->
              Append(extracted.current_reasoning,
                     ObservationReasoningStep(str(tool_result.output))),
          is_done |-> FALSE,
          sources |-> Append(step_sources, tool_result.output),
          tool_called |-> TRUE]

\* _aprocess_actions (suspending): tools_dict is keyed by metadata.name
_aprocess_actions(step_sources, tools, output, tool_result) ==
    LET tools_dict == {tools[i] : i \in 1..Len(tools)}
        extracted == _extract_reasoning_step(output)
    IN  IF extracted.error # NoError
        THEN [error |-> extracted.error, current_reasoning |-> << >>,
              is_done |-> FALSE, sources |-> step_sources, tool_called |-> FALSE]
        ELSE IF extracted.is_done
        THEN [error |-> NoError, current_reasoning |-> extracted.current_reasoning,
              is_done |-> TRUE, sources |-> step_sources, tool_called |-> FALSE]
        ELSE ACallTool(step_sources, tools_dict, extracted, tool_result)

\* _get_response rendering the last entry's content whatever its type
_get_response_ContentAlways(reasoning, srcs, cap) ==
    IF Len(reasoning) = 0
    THEN [error |-> NoReasoningSteps, response |-> None, sources |-> << >>]
    ELSE IF Len(reasoning) = cap
    THEN [error |-> MaxIterationsReached, response |-> None, sources |-> << >>]
    ELSE [error |-> NoError, response |-> get_content(reasoning[Len(reasoning)]),
          sources |-> srcs]

\* _get_response: the answer assembled from the trace
_get_response(reasoning, srcs, cap) ==
    IF Len(reasoning) = 0
    THEN [error |-> NoReasoningSteps, response |-> None, sources |-> << >>]
    ELSE IF Len(reasoning) = cap
    THEN [error |-> MaxIterationsReached, response |-> None, sources |-> << >>]
    ELSE IF reasoning[Len(reasoning)].type = "Response"
    THEN [error |-> NoError, response |-> reasoning[Len(reasoning)].response,
          sources |-> srcs]
    ELSE [error |-> NoError, response |-> get_content(reasoning[Len(reasoning)]),
          sources |-> srcs]

\* the state a step works on: the shared step_state lists and the memory
StepState(srcs, reasoning, mem) ==
    [sources |-> srcs, current_reasoning |-> reasoning, memory |-> mem]

\* what a step leaves behind: the state, and what it returned or raised
StepResult(st, error, is_last, next_steps, response, tool_called, out_sources) ==
    [state |-> st, error |-> error, is_last |-> is_last,
     next_steps |-> next_steps, response |-> response,
     tool_called |-> tool_called, out_sources |-> out_sources]

\* FinishStep testing the cap on the trace before it is extended, and
\* leaving the step state alone when the test fails
FinishStep_CheckFirst(st, processed, cap, step_id) ==
    LET extended == st.current_reasoning \o processed.current_reasoning
        agent_response == _get_response(extended, processed.sources, cap)
    IN  IF agent_response.error # NoError
        THEN StepResult(st, agent_response.error, FALSE, << >>, None,
                        processed.tool_called, << >>)
        ELSE IF processed.is_done
        THEN StepResult(
                 StepState(processed.sources, extended,
                           Append(st.memory,
                                  ChatMessage(agent_response.response, "assistant"))),
                 NoError, TRUE, << >>, agent_response.response,
                 processed.tool_called, agent_response.sources)
        ELSE StepResult(StepState(processed.sources, extended, st.memory),
                        NoError, FALSE, <<step_id>>, agent_response.response,
                        processed.tool_called, agent_response.sources)

\* FinishStep writing the assembled response to memory after every step
FinishStep_PutAlways(st, processed, cap, step_id) ==
    LET extended == st.current_reasoning \o processed.current_reasoning
        agent_response == _get_response(extended, processed.sources, cap)
    IN  IF agent_response.error # NoError
        THEN StepResult(StepState(processed.sources, extended, st.memory),
                        agent_response.error, FALSE, << >>, None,
                        processed.tool_called, << >>)
        ELSE StepResult(
                 StepState(processed.sources, extended,
                           Append(st.memory,
                                  ChatMessage(agent_response.response, "assistant"))),
                 NoError, processed.is_done,
                 IF processed.is_done THEN << >> ELSE <<step_id>>,
                 agent_response.response, processed.tool_called, agent_response.sources)

\* FinishStep assigning the step's reasoning steps to the trace instead of
\* extending the trace with them
FinishStep_Replace(st, processed, cap, step_id) ==
    LET extended == processed.current_reasoning
        agent_response == _get_response(extended, processed.sources, cap)
    IN  IF agent_response.error # NoError
        THEN StepResult(StepState(processed.sources, extended, st.memory),
                        agent_response.error, FALSE, << >>, None,
                        processed.tool_called, << >>)
        ELSE IF processed.is_done
        THEN StepResult(
                 StepState(processed.sources, extended,
                           Append(st.memory,
                                  ChatMessage(agent_response.response, "assistant"))),
                 NoError, TRUE, << >>, agent_response.response,
                 processed.tool_called, agent_response.sources)
        ELSE StepResult(StepState(processed.sources, extended, st.memory),
                        NoError, FALSE, <<step_id>>, agent_response.response,
                        processed.tool_called, agent_response.sources)

\* FinishStep proposing no follow-up step after a step that is not the last
FinishStep_NoFollowUp(st, processed, cap, step_id) ==
    LET extended == st.current_reasoning \o processed.current_reasoning
        agent_response == _get_response(extended, processed.sources, cap)
    IN  IF agent_response.error # NoError
        THEN StepResult(StepState(processed.sources, extended, st.memory),
                        agent_response.error, FALSE, << >>, None,
                        processed.tool_called, << >>)
        ELSE IF processed.is_done
        THEN StepResult(
                 StepState(processed.sources, extended,
                           Append(st.memory,
                                  ChatMessage(agent_response.response, "assistant"))),
                 NoError, TRUE, << >>, agent_response.response,
                 processed.tool_called, agent_response.sources)
        ELSE StepResult(StepState(processed.sources, extended, st.memory),
                        NoError, FALSE, << >>, agent_response.response,
                        processed.tool_called, agent_response.sources)

\* lines 358-382 of _run_step: extend the trace, assemble, finish or go on
FinishStep(st, processed, cap, step_id) ==
    LET extended == st.current_reasoning \o processed.current_reasoning
        agent_response == _get_response(extended, processed.sources, cap)
    IN  IF agent_response.error # NoError
        THEN StepResult(StepState(processed.sources, extended, st.memory),
                        agent_response.error, FALSE, << >>, None,
                        processed.tool_called, << >>)
        ELSE IF processed.is_done
        THEN StepResult(
                 StepState(processed.sources, extended,
                           Append(st.memory,
                                  ChatMessage(agent_response.response, "assistant"))),
                 NoError, TRUE, << >>, agent_response.response,
                 processed.tool_called, agent_response.sources)
        ELSE StepResult(StepState(processed.sources, extended, st.memory),
                        NoError, FALSE, <<step_id>>, agent_response.response,
                        processed.tool_called, agent_response.sources)

\* _run_step: one blocking step on state st, given what the model answers
\* (chat_response) and what the tool does if it is called (tool_result)
_run_step(st, mode, tools, input, cap, chat_response, tool_result, step_id) ==
    LET resolved == get_tools(mode, tools, input)
        processed == _process_actions(st.sources, resolved, chat_response,
                                      tool_result)
    IN  IF processed.error # NoError
        THEN StepResult(StepState(processed.sources, st.current_reasoning,
                                  st.memory),
                        processed.error, FALSE, << >>, None,
                        processed.tool_called, << >>)
        ELSE FinishStep(st, processed, cap, step_id)

\* lines 404-428 of _arun_step
AFinishStep(st, processed, cap, step_id) ==
    LET extended == st.current_reasoning \o processed.current_reasoning
        agent_response == _get_response(extended, processed.sources, cap)
    IN  IF agent_response.error # NoError
        THEN StepResult(StepState(processed.sources, extended, st.memory),
                        agent_response.error, FALSE, << >>, None,
                        processed.tool_called, << >>)
        ELSE IF processed.is_done
        THEN StepResult(
                 StepState(processed.sources, extended,
                           Append(st.memory,
                                  ChatMessage(agent_response.response, "assistant"))),
                 NoError, TRUE, << >>, agent_response.response,
                 processed.tool_called, agent_response.sources)
        ELSE StepResult(StepState(processed.sources, extended, st.memory),
                        NoError, FALSE, <<step_id>>, agent_response.response,
                        processed.tool_called, agent_response.sources)

\* _arun_step: one suspending step, run to its end
_arun_step(st, mode, tools, input, cap, chat_response, tool_result, step_id) ==
    LET resolved == get_tools(mode, tools, input)
        processed == _aprocess_actions(st.sources, resolved, chat_response,
                                       tool_result)
    IN  IF processed.error # NoError
        THEN StepResult(StepState(processed.sources, st.current_reasoning,
                                  st.memory),
                        processed.error, FALSE, << >>, None,
                        processed.tool_called, << >>)
        ELSE AFinishStep(st, processed, cap, step_id)

(* ------------------------------- actions ------------------------------- *)

TypeOK ==
    /\ tools_arg \in ToolLists
    /\ tool_retriever \in Retrievers
    /\ max_iterations \in 1..MaxCap
    /\ engine \in {"new", "constructed", "failed"}
    /\ _get_tools \in {None, "fixed", "retriever", "empty"}
    /\ task_input \in TaskInputs
    /\ initialized \in BOOLEAN
    /\ n_created \in 0..(MaxSteps + 1)
    /\ n_steps \in 0..MaxSteps
    /\ n_tool_calls \in 0..MaxSteps
    /\ cap_raised \in BOOLEAN
    /\ finished \in BOOLEAN
    /\ script \in {"A*", "A*R", "other"}

Init ==
    /\ tools_arg \in ToolLists
    /\ tool_retriever \in Retrievers
    /\ max_iterations \in 1..MaxCap
    /\ task_input \in TaskInputs
    /\ memory0 \in {<< >>, <<ChatMessage("hello", "user")>>}
    /\ memory = memory0
    /\ engine = "new"
    /\ _get_tools = None
    /\ initialized = FALSE
    /\ sources = << >>
    /\ current_reasoning = << >>
    /\ n_created = 0
    /\ n_steps = 0
    /\ n_tool_calls = 0
    /\ cap_raised = FALSE
    /\ finished = FALSE
    /\ script = "A*"
    /\ last = NoOutcome
    /\ heap = << >>
    /\ tasks = [t \in TaskIds |-> NewTask(TaskInput(t))]

\* SelectToolSource letting the fixed list win when both are given
SelectToolSource_PreferFixed(tools, retriever) ==
    IF Len(tools) > 0 THEN "fixed"
    ELSE IF retriever # None THEN "retriever"
    ELSE "empty"

\* the tool source __init__ selects, or None when it raises
SelectToolSource(tools, retriever) ==
    IF Len(tools) > 0 /\ retriever # None THEN None
    ELSE IF Len(tools) > 0 THEN "fixed"
    ELSE IF retriever # None THEN "retriever"
    ELSE "empty"

\* ReActAgentStepEngine.__init__
__init__ ==
    /\ engine = "new"
    /\ LET source == SelectToolSource(tools_arg, tool_retriever) IN
       /\ _get_tools' = source
       /\ engine' = IF source = None THEN "failed" ELSE "constructed"
       /\ last' = Outcome("__init__",
                          IF source = None THEN AmbiguousToolSource ELSE NoError,
                          FALSE, << >>, None, NoStep, FALSE, << >>)
    /\ UNCHANGED <<config, heap, tasks, memory, initialized, sources, current_reasoning,
                   n_created, n_steps, n_tool_calls, cap_raised, finished,
                   script>>

\* initialize_step: the task's first step, with new empty lists
initialize_step ==
    /\ engine = "constructed"
    /\ ~initialized
    /\ initialized' = TRUE
    /\ sources' = << >>
    /\ current_reasoning' = << >>
    /\ n_created' = n_created + 1
    /\ last' = Outcome("initialize_step", NoError, FALSE, << >>, None, NoStep,
                       FALSE, << >>)
    /\ UNCHANGED <<config, heap, tasks, engine, _get_tools, memory, n_steps, n_tool_calls,
                   cap_raised, finished, script>>

\* the step the parser makes of a model answer, NoStep when there is none
Parsed(chat_response) ==
    IF chat_response.content = None THEN NoStep
    ELSE IF ~parse(chat_response.content).ok THEN NoStep
    ELSE parse(chat_response.content).step

\* the names of the tools resolved for the task's input
ResolvedNames ==
    LET resolved == get_tools(_get_tools, tools_arg, task_input)
    IN  {resolved[i] : i \in 1..Len(resolved)}

\* what model and tool answered in one step: "A" an Action naming a resolved
\* tool that returns normally, "R" a Response, "X" anything else
InputKind(chat_response, tool_result) ==
    LET p == Parsed(chat_response) IN
    IF p.type = "Response" THEN "R"
    ELSE IF p.type = "Action" /\ p.action \in ResolvedNames /\ ~tool_result.raised
    THEN "A"
    ELSE "X"

\* the answers so far are Actions only ("A*"), Actions then one Response
\* ("A*R"), or anything else
NextScript(kind) ==
    IF script = "A*" /\ kind = "A" THEN "A*"
    ELSE IF script = "A*" /\ kind = "R" THEN "A*R"
    ELSE "other"

\* the state after a step that left r behind
Apply(op, r, chat_response, tool_result) ==
    /\ sources' = r.state.sources
    /\ current_reasoning' = r.state.current_reasoning
    /\ memory' = r.state.memory
    /\ n_created' = n_created + Len(r.next_steps)
    /\ n_steps' = n_steps + 1
    /\ n_tool_calls' = n_tool_calls + (IF r.tool_called THEN 1 ELSE 0)
    /\ cap_raised' = (cap_raised \/ r.error = MaxIterationsReached)
    /\ finished' = (finished \/ r.is_last)
    /\ script' = NextScript(InputKind(chat_response, tool_result))
    /\ last' = Outcome(op, r.error, r.is_last, r.next_steps, r.response,
                       Parsed(chat_response), r.tool_called, r.out_sources)
    /\ UNCHANGED <<config, heap, tasks, engine, _get_tools, initialized>>

\* run_step on a step of the task
run_step ==
    /\ engine = "constructed"
    /\ initialized
    /\ n_steps < MaxSteps
    /\ \E chat_response \in ChatResponses, tool_result \in ToolResults :
         Apply("run_step",
               _run_step(StepState(sources, current_reasoning, memory),
                         _get_tools, tools_arg, task_input, max_iterations,
                         chat_response, tool_result, n_created + 1),
               chat_response, tool_result)

\* arun_step on a step of the task
arun_step ==
    /\ engine = "constructed"
    /\ initialized
    /\ n_steps < MaxSteps
    /\ \E chat_response \in ChatResponses, tool_result \in ToolResults :
         Apply("arun_step",
               _arun_step(StepState(sources, current_reasoning, memory),
                          _get_tools, tools_arg, task_input, max_iterations,
                          chat_response, tool_result, n_created + 1),
               chat_response, tool_result)

\* stream_step delegating to the blocking step
stream_step_Delegates ==
    /\ engine = "constructed"
    /\ initialized
    /\ n_steps < MaxSteps
    /\ \E chat_response \in ChatResponses, tool_result \in ToolResults :
         Apply("stream_step",
               _run_step(StepState(sources, current_reasoning, memory),
                         _get_tools, tools_arg, task_input, max_iterations,
                         chat_response, tool_result, n_created + 1),
               chat_response, tool_result)

\* stream_step
stream_step ==
    /\ engine = "constructed"
    /\ initialized
    /\ last' = Outcome("stream_step", UnsupportedStreaming, FALSE, << >>, None,
                       NoStep, FALSE, << >>)
    /\ UNCHANGED <<config, heap, tasks, engine, _get_tools, memory, initialized, sources,
                   current_reasoning, n_created, n_steps, n_tool_calls,
                   cap_raised, finished, script>>

\* astream_step
astream_step ==
    /\ engine = "constructed"
    /\ initialized
    /\ last' = Outcome("astream_step", UnsupportedStreaming, FALSE, << >>, None,
                       NoStep, FALSE, << >>)
    /\ UNCHANGED <<config, heap, tasks, engine, _get_tools, memory, initialized, sources,
                   current_reasoning, n_created, n_steps, n_tool_calls,
                   cap_raised, finished, script>>

Next ==
    \/ __init__
    \/ initialize_step
    \/ run_step
    \/ arun_step
    \/ stream_step
    \/ astream_step

Spec == Init /\ [][Next]_vars

(* ------------------------------- claims -------------------------------- *)

\* the last transition was a run_step or arun_step call
IsStep(o) == o.op \in {"run_step", "arun_step"}

\* C1 (as claimed): whenever the parser returns a terminal Response step, the
\* step returns is_last = true with no follow-up step and does not fail.
C1_ResponseAlwaysLast ==
    (IsStep(last) /\ last.parsed.type = "Response")
        => (last.error = NoError /\ last.is_last /\ last.next_steps = << >>)

\* C2 (as claimed): whenever the parser returns an Action naming a resolved
\* tool and the tool returns normally, the step returns is_last = false and
\* exactly one follow-up step.
C2_ActionAlwaysFollowUp ==
    (IsStep(last) /\ last.parsed.type = "Action"
       /\ last.parsed.action \in ResolvedNames
       /\ last.tool_called /\ last.error # ToolExecutionError)
        => (last.error = NoError /\ ~last.is_last /\ Len(last.next_steps) = 1)

\* C2 (amended): an Action naming a resolved tool whose call returns normally
\* gives is_last = false and exactly one follow-up step, unless the trace
\* with the action and observation appended is exactly max_iterations long,
\* in which case the step fails with MaxIterationsReached and proposes none.
C2_ActionFollowUpUnlessCap ==
    (IsStep(last) /\ last.parsed.type = "Action"
       /\ last.parsed.action \in ResolvedNames
       /\ last.tool_called /\ last.error # ToolExecutionError)
        => IF Len(current_reasoning) = max_iterations
           THEN last.error = MaxIterationsReached /\ last.next_steps = << >>
           ELSE last.error = NoError /\ ~last.is_last
                  /\ Len(last.next_steps) = 1

\* C2 witness: a later step of a task acted with a resolved tool and proposed
\* its follow-up step
C2_Witness ==
    /\ IsStep(last) /\ n_steps >= 2
    /\ last.parsed.type = "Action" /\ last.parsed.action \in ResolvedNames
    /\ last.tool_called
    /\ last.error = NoError /\ ~last.is_last /\ Len(last.next_steps) = 1

\* C3 (as claimed): while every step is an Action with a resolved, succeeding
\* tool, the trace never grows past max_iterations without a step having
\* failed with MaxIterationsReached.
C3_TraceBoundedByCap ==
    (script = "A*" /\ Len(current_reasoning) > max_iterations) => cap_raised

\* C4 (as claimed): an Action naming a tool outside the resolved set fails
\* with UnknownTool, calls no tool, leaves sources alone and leaves the shared
\* trace with the parsed action appended (and no observation).
C4_UnknownToolAppendsAction ==
    [][(n_steps' = n_steps + 1 /\ last'.parsed.type = "Action"
          /\ last'.parsed.action \notin ResolvedNames)
         => (/\ last'.error = UnknownTool
             /\ ~last'.tool_called /\ n_tool_calls' = n_tool_calls
             /\ sources' = sources
             /\ current_reasoning' = Append(current_reasoning, last'.parsed))]_vars

\* C4 (amended): an Action naming a tool outside the resolved set fails with
\* UnknownTool, calls no tool, and leaves sources and the shared trace exactly
\* as they were before the call: neither the parsed action nor an observation
\* is appended.
C4_UnknownToolLeavesTrace ==
    [][(n_steps' = n_steps + 1 /\ last'.parsed.type = "Action"
          /\ last'.parsed.action \notin ResolvedNames)
         => (/\ last'.error = UnknownTool
             /\ ~last'.tool_called /\ n_tool_calls' = n_tool_calls
             /\ last'.next_steps = << >>
             /\ sources' = sources
             /\ current_reasoning' = current_reasoning)]_vars

\* C4 witness: mid-task, a step failed with UnknownTool
C4_Witness ==
    /\ IsStep(last) /\ last.error = UnknownTool
    /\ last.parsed.type = "Action" /\ last.parsed.action \notin ResolvedNames
    /\ Len(current_reasoning) >= 2 /\ Len(sources) >= 1

\* C5: memory gets a turn only from a step that returns is_last = true, that
\* turn is the assistant turn holding the Response step's final answer, and a
\* task driven until its first is_last has received exactly that one turn;
\* steps that return is_last = false or raise, and all other calls, leave
\* memory alone.
C5_MemoryOneTurn ==
    [][/\ IF n_steps' = n_steps + 1 /\ last'.error = NoError /\ last'.is_last
          THEN /\ last'.parsed.type = "Response"
               /\ last'.response = last'.parsed.response
               /\ memory' = Append(memory,
                                   ChatMessage(last'.parsed.response, "assistant"))
          ELSE memory' = memory
       /\ ~finished' => memory' = memory0
       /\ (~finished /\ finished')
            => memory' = Append(memory0,
                                ChatMessage(last'.parsed.response, "assistant"))]_vars

\* C5 witness: the task ran action steps and then finished, with one new turn
C5_Witness ==
    /\ finished /\ IsStep(last) /\ last.is_last /\ n_steps >= 2
    /\ Len(sources) >= 1
    /\ memory = Append(memory0, ChatMessage("42", "assistant"))

\* the trace is (action, observation) k times then one response, and sources
\* holds the k tool outputs, the i-th observation being str of the i-th source
TraceShape(k) ==
    /\ Len(current_reasoning) = 2 * k + 1
    /\ Len(sources) = k
    /\ n_tool_calls = k
    /\ \A i \in 1..k :
         /\ current_reasoning[2 * i - 1].type = "Action"
         /\ current_reasoning[2 * i].type = "Observation"
         /\ current_reasoning[2 * i].observation = str(sources[i])
    /\ current_reasoning[2 * k + 1].type = "Response"

C7_ToolSourceSelection ==
    engine # "new" =>
      LET fixed == Len(tools_arg) > 0
          retr == tool_retriever # None
      IN  /\ (fixed /\ retr)
               => (/\ engine = "failed"
                   /\ last.op = "__init__" /\ last.error = AmbiguousToolSource
                   /\ ~initialized /\ n_steps = 0 /\ n_tool_calls = 0)
          /\ ~(fixed /\ retr) => engine = "constructed"
          /\ (fixed /\ ~retr)
               => \A input \in TaskInputs :
                    get_tools(_get_tools, tools_arg, input) = tools_arg
          /\ (~fixed /\ retr)
               => \A input \in TaskInputs :
                    get_tools(_get_tools, tools_arg, input) = retrieve(input)
          /\ (~fixed /\ ~retr)
               => (/\ \A input \in TaskInputs :
                        get_tools(_get_tools, tools_arg, input) = << >>
                   /\ n_tool_calls = 0
                   /\ (IsStep(last) /\ last.parsed.type = "Action")
                        => last.error = UnknownTool)

\* C7 witness: the constructor was given both and raised
C7_Witness ==
    /\ Len(tools_arg) > 0 /\ tool_retriever # None
    /\ engine = "failed" /\ last.error = AmbiguousToolSource

\* C8: every stream_step / astream_step call fails with UnsupportedStreaming,
\* returns nothing, and leaves sources, current_reasoning and memory alone.
C8_StreamingUnsupported ==
    [][last'.op \in {"stream_step", "astream_step"}
         => (/\ last'.error = UnsupportedStreaming
             /\ last'.response = None /\ last'.next_steps = << >>
             /\ ~last'.is_last
             /\ sources' = sources
             /\ current_reasoning' = current_reasoning
             /\ memory' = memory)]_vars

\* C8 witness: a streaming call on a finished task that also had a failed step
C8_Witness ==
    /\ last.op \in {"stream_step", "astream_step"}
    /\ last.error = UnsupportedStreaming
    /\ finished /\ n_steps >= 3 /\ Len(current_reasoning) >= 3
    /\ n_tool_calls > Len(sources)

IsPrefix(a, b) == Len(a) <= Len(b) /\ SubSeq(b, 1, Len(a)) = a

\* C9: the trace before any call is a prefix of the trace after it, and a step
\* that returns normally leaves the trace strictly longer.
C9_MonotonicAppend ==
    [][/\ IsPrefix(current_reasoning, current_reasoning')
       /\ (n_steps' = n_steps + 1 /\ last'.error = NoError)
            => Len(current_reasoning') > Len(current_reasoning)]_vars

\* C9 witness: a successful step on a trace that already had entries
C9_Witness ==
    /\ IsStep(last) /\ last.error = NoError /\ n_steps >= 2
    /\ Len(current_reasoning) >= 3

\* C10: from every reachable state of a task, for every model answer and
\* every tool result, the blocking and the suspending step give the same
\* result or error, is_last, follow-up steps, sources, trace and memory.
C10_BlockingEqualsSuspending ==
    (engine = "constructed" /\ initialized)
        => \A chat_response \in ChatResponses, tool_result \in ToolResults :
             _run_step(StepState(sources, current_reasoning, memory),
                       _get_tools, tools_arg, task_input, max_iterations,
                       chat_response, tool_result, n_created + 1)
               = _arun_step(StepState(sources, current_reasoning, memory),
                            _get_tools, tools_arg, task_input, max_iterations,
                            chat_response, tool_result, n_created + 1)

\* C10 witness: mid-task, a suspending step has called a tool, so the next
\* step of either form starts from a state with sources and a trace
C10_Witness ==
    /\ last.op = "arun_step" /\ last.tool_called /\ last.error = NoError
    /\ n_steps >= 2 /\ n_steps < MaxSteps /\ Len(sources) >= 1

\* the error the engine is to raise for a model answer that gives no Action
\* and no terminal step, NoError for the other answers
MalformedKind(chat_response) ==
    IF chat_response.content = None THEN EmptyModelOutput
    ELSE IF ~parse(chat_response.content).ok THEN ReasoningParseError
    ELSE IF ~is_done(parse(chat_response.content).step)
            /\ parse(chat_response.content).step.type # "Action"
    THEN UnexpectedStepType
    ELSE NoError

\* the step state and memory as a step finds them
Here == StepState(sources, current_reasoning, memory)

\* what the blocking and the suspending step would do here
RunHere(chat_response, tool_result) ==
    _run_step(Here, _get_tools, tools_arg, task_input, max_iterations,
              chat_response, tool_result, n_created + 1)

ARunHere(chat_response, tool_result) ==
    _arun_step(Here, _get_tools, tools_arg, task_input, max_iterations,
               chat_response, tool_result, n_created + 1)

\* r raised error and left the step state and memory st as they were, having
\* called no tool and proposed no step
RaisedUntouched(r, st, error) ==
    /\ r.error = error
    /\ r.state = st
    /\ ~r.tool_called
    /\ r.next_steps = << >> /\ ~r.is_last /\ r.response = None

\* C11: an answer with no text fails with EmptyModelOutput, a text the parser
\* rejects with ReasoningParseError, a non-terminal step that is no Action
\* with UnexpectedStepType; the step then calls no tool, proposes no step and
\* leaves sources, current_reasoning and memory as they were.
C11_MalformedOutputLeavesState ==
    /\ (engine = "constructed" /\ initialized)
         => \A chat_response \in ChatResponses, tool_result \in ToolResults :
              MalformedKind(chat_response) # NoError
                => /\ RaisedUntouched(RunHere(chat_response, tool_result),
                                      Here, MalformedKind(chat_response))
                   /\ RaisedUntouched(ARunHere(chat_response, tool_result),
                                      Here, MalformedKind(chat_response))
    /\ (IsStep(last) /\ last.error \in {EmptyModelOutput, ReasoningParseError,
                                        UnexpectedStepType})
         => (/\ ~last.tool_called /\ last.next_steps = << >>
             /\ ~last.is_last /\ last.response = None)

\* C11 witness: mid-task, the parser rejected the model's text
C11_Witness ==
    /\ IsStep(last) /\ last.error = ReasoningParseError
    /\ Len(current_reasoning) >= 2 /\ Len(sources) >= 1

\* r raised the tool's error after calling the tool and left the step state
\* and memory st as they were, having proposed no step
ToolRaisedUntouched(r, st) ==
    /\ r.error = ToolExecutionError
    /\ r.state = st
    /\ r.tool_called
    /\ r.next_steps = << >> /\ ~r.is_last /\ r.response = None

\* C12: when the resolved tool raises, the step fails with the tool's error
\* after that one call, appends nothing to sources or current_reasoning,
\* writes nothing to memory and proposes no step.
C12_ToolErrorPropagates ==
    /\ (engine = "constructed" /\ initialized)
         => \A chat_response \in ChatResponses, tool_result \in ToolResults :
              (/\ Parsed(chat_response).type = "Action"
               /\ Parsed(chat_response).action \in ResolvedNames
               /\ tool_result.raised)
                => /\ ToolRaisedUntouched(RunHere(chat_response, tool_result),
                                          Here)
                   /\ ToolRaisedUntouched(ARunHere(chat_response, tool_result),
                                          Here)
    /\ (IsStep(last) /\ last.error = ToolExecutionError)
         => (/\ last.tool_called /\ last.next_steps = << >>
             /\ ~last.is_last /\ last.response = None
             /\ n_tool_calls > Len(sources))

\* C12 witness: mid-task, a resolved tool raised
C12_Witness ==
    /\ IsStep(last) /\ last.error = ToolExecutionError /\ last.tool_called
    /\ n_tool_calls = Len(sources) + 1
    /\ Len(current_reasoning) >= 2 /\ Len(sources) >= 1

\* C16 (as claimed): once a step of the task has failed with
\* MaxIterationsReached, every later run_step / arun_step call on the task
\* fails too and does not grow the trace.
C16_CapIsTerminal ==
    [][(cap_raised /\ n_steps' = n_steps + 1)
         => (last'.error # NoError
             /\ current_reasoning' = current_reasoning)]_vars

\* C17: no step fails with NoReasoningSteps: whenever a step gets as far as
\* assembling the response, _process_actions has handed it at least one
\* reasoning step, so the extended trace is not empty.
C17_NoReasoningStepsUnreachable ==
    /\ IsStep(last) => last.error # NoReasoningSteps
    /\ (engine = "constructed" /\ initialized)
         => \A chat_response \in ChatResponses, tool_result \in ToolResults :
              LET tools == get_tools(_get_tools, tools_arg, task_input)
                  p == _process_actions(sources, tools, chat_response, tool_result)
                  ap == _aprocess_actions(sources, tools, chat_response,
                                          tool_result)
              IN  /\ p.error = NoError => Len(p.current_reasoning) >= 1
                  /\ ap.error = NoError => Len(ap.current_reasoning) >= 1
                  /\ RunHere(chat_response, tool_result).error # NoReasoningSteps
                  /\ ARunHere(chat_response, tool_result).error # NoReasoningSteps

\* C17 witness: the first step of a task, run on the empty trace, returned
C17_Witness ==
    /\ IsStep(last) /\ n_steps = 1 /\ last.error = NoError
    /\ Len(current_reasoning) = 1

\* number of trace entries of a type
CountType(reasoning, type) ==
    Cardinality({i \in 1..Len(reasoning) : reasoning[i].type = type})

\* sources, observations and actions pair up in the trace
Paired(reasoning, srcs) ==
    /\ Len(srcs) = CountType(reasoning, "Observation")
    /\ Len(srcs) = CountType(reasoning, "Action")
    /\ \A i \in 1..Len(reasoning) :
         reasoning[i].type = "Observation"
           => (i > 1 /\ reasoning[i - 1].type = "Action")

\* C19: in every reachable state sources has as many entries as the trace has
\* Observation steps and as it has Action steps, every Observation directly
\* follows its Action, and one step calls at most one tool and appends at most
\* one source.
C19_TraceSourcesConsistent ==
    [][/\ Paired(current_reasoning, sources)
       /\ Paired(current_reasoning', sources')
       /\ IF n_steps' = n_steps + 1
          THEN /\ n_tool_calls' <= n_tool_calls + 1
               /\ Len(sources') <= Len(sources) + 1
               /\ Len(sources') - Len(sources) <= n_tool_calls' - n_tool_calls
          ELSE sources' = sources /\ n_tool_calls' = n_tool_calls]_vars

\* C19 witness: a tool has raised, and the last step hit the cap after its
\* tool call
C19_Witness ==
    /\ IsStep(last) /\ last.error = MaxIterationsReached /\ last.tool_called
    /\ n_tool_calls > Len(sources) /\ Len(sources) >= 1

\* C20: a step that fails with MaxIterationsReached has already called its
\* tool (if the parsed step is an Action), appended the output to sources and
\* the parsed step (and observation) to the trace; it writes nothing to
\* memory, returns nothing and proposes no step.  Every other error leaves
\* sources, trace and memory as they were.
C20_CapCheckedAfterEffects ==
    [][n_steps' = n_steps + 1
         => /\ last'.error = MaxIterationsReached
                 => /\ Len(current_reasoning') = max_iterations
                    /\ memory' = memory
                    /\ last'.next_steps = << >> /\ n_created' = n_created
                    /\ ~last'.is_last /\ last'.response = None
                    /\ IF last'.parsed.type = "Action"
                       THEN /\ last'.tool_called
                            /\ n_tool_calls' = n_tool_calls + 1
                            /\ Len(sources') = Len(sources) + 1
                            /\ SubSeq(sources', 1, Len(sources)) = sources
                            /\ current_reasoning'
                                 = current_reasoning
                                     \o <<last'.parsed,
                                          ObservationReasoningStep(
                                              str(sources'[Len(sources')]))>>
                       ELSE /\ last'.parsed.type = "Response"
                            /\ ~last'.tool_called
                            /\ sources' = sources
                            /\ current_reasoning'
                                 = Append(current_reasoning, last'.parsed)
            /\ last'.error \notin {NoError, MaxIterationsReached}
                 => /\ sources' = sources
                    /\ current_reasoning' = current_reasoning
                    /\ memory' = memory]_vars

\* C20 witness: a step called its tool and then failed at the cap
C20_Witness ==
    /\ IsStep(last) /\ last.error = MaxIterationsReached
    /\ last.parsed.type = "Action" /\ last.tool_called
    /\ Len(sources) >= 1 /\ Len(current_reasoning) = max_iterations

\* C18: the response of a step that returns is the final answer of the last
\* trace entry when that entry is a Response and the entry's content string
\* otherwise, which for a step that is not the last is the observation just
\* appended; the sources of the output are the task's whole sources list.
C18_ResponseText ==
    [][(n_steps' = n_steps + 1 /\ last'.error = NoError)
         => LET entry == current_reasoning'[Len(current_reasoning')] IN
            /\ last'.response = IF entry.type = "Response"
                                THEN entry.response
                                ELSE get_content(entry)
            /\ last'.is_last => last'.response = last'.parsed.response
            /\ ~last'.is_last
                 => /\ Len(sources') = Len(sources) + 1
                    /\ entry = ObservationReasoningStep(
                                   str(sources'[Len(sources')]))
            /\ last'.sources = sources']_vars

\* C18 witness: a step that is not the last returned the observation of the
\* second tool call, with both sources
C18_Witness ==
    /\ IsStep(last) /\ last.error = NoError /\ ~last.is_last
    /\ Len(last.sources) = 2
    /\ last.response
         = get_content(ObservationReasoningStep(str(sources[2])))

(* ---------------- two tasks on one engine, steps suspending ------------- *)

\* the variables of the single task above, which the tasks here leave alone
single == <<task_input, memory, memory0, initialized, sources,
            current_reasoning, n_created, n_tool_calls, cap_raised, finished,
            script, last>>

EmptyStepState == [sources |-> << >>, current_reasoning |-> << >>]

\* initialize_step sharing one pair of lists between all first steps
NewStepState_Shared(h) ==
    IF h = << >>
    THEN [heap |-> Append(h, EmptyStepState), ref |-> Len(h) + 1]
    ELSE [heap |-> h, ref |-> 1]

\* initialize_step, lines 125-132: two new lists in a new step_state
NewStepState(h) == [heap |-> Append(h, EmptyStepState), ref |-> Len(h) + 1]

\* TaskStep.get_next_step: a step on the same step_state object
get_next_step(h, ref) == [heap |-> h, ref |-> ref]

\* the follow-up step made from a new initial step_state
FollowUp_Fresh(h, ref, next_steps) ==
    IF next_steps = << >>
    THEN [heap |-> h, refs |-> << >>]
    ELSE [heap |-> Append(h, EmptyStepState), refs |-> <<Len(h) + 1>>]

\* lines 367-375: no new step after the last one, else step.get_next_step
FollowUp(h, ref, next_steps) ==
    IF next_steps = << >>
    THEN [heap |-> h, refs |-> << >>]
    ELSE LET next == get_next_step(h, ref)
         IN  [heap |-> next.heap, refs |-> <<next.ref>>]

\* the step_state and memory read through step s of task t
LiveVia(t, s) ==
    StepState(heap[tasks[t].steps[s]].sources,
              heap[tasks[t].steps[s]].current_reasoning,
              tasks[t].memory)

\* the step suspended at tool.acall with the parsed action put on the trace
SuspendAtTool_AppendAction(st, extracted) ==
    StepState(st.sources, st.current_reasoning \o extracted.current_reasoning,
              st.memory)

\* lines 223-241: nothing is written between the model's answer and the
\* await of tool.acall
SuspendAtTool(st, extracted) == st

\* lines 224-233: the step goes on to await tool.acall
NeedsTool(input, chat_response) ==
    LET tools == get_tools(_get_tools, tools_arg, input)
        extracted == _extract_reasoning_step(chat_response)
    IN  /\ extracted.error = NoError
        /\ ~extracted.is_done
        /\ extracted.current_reasoning[1].action
             \in {tools[i] : i \in 1..Len(tools)}

\* a tool result for the log of a step that called no tool
NoToolResult == [raised |-> TRUE, output |-> None]

\* initialize_step for task t
InitializeStep(t) ==
    /\ engine = "constructed"
    /\ tasks[t].steps = << >>
    /\ LET new == NewStepState(heap) IN
       /\ heap' = new.heap
       /\ tasks' = [tasks EXCEPT ![t].steps = <<new.ref>>]
    /\ UNCHANGED <<config, engine, _get_tools, n_steps, single>>

\* what model and tools answer the steps of the tasks run side by side
TaskChatResponses ==
    {[content |-> c] : c \in {"Answer: 42", "Action: search", "garbage"}}

TaskToolResults ==
    {[raised |-> FALSE, output |-> [content |-> "result-y", raw |-> 1]],
     [raised |-> TRUE, output |-> None]}

\* task t after the step run on its step s has left r behind
Complete(t, s, r, chat_response, tool_result) ==
    LET ref == tasks[t].steps[s]
        written == [heap EXCEPT ![ref] =
                        [sources |-> r.state.sources,
                         current_reasoning |-> r.state.current_reasoning]]
        follow == FollowUp(written, ref, r.next_steps)
    IN  /\ heap' = follow.heap
        /\ tasks' = [tasks EXCEPT ![t] =
                        [@ EXCEPT !.memory = r.state.memory,
                                  !.steps = @ \o follow.refs,
                                  !.pc = "idle",
                                  !.step = s,
                                  !.pending = [content |-> None],
                                  !.at_call = IF tasks[t].pc = "idle"
                                              THEN LiveVia(t, s) ELSE @,
                                  !.log = Append(@, [chat_response |-> chat_response,
                                                     tool_result |-> tool_result]),
                                  !.out = [error |-> r.error,
                                           is_last |-> r.is_last,
                                           at |-> tasks[t].pc]]]

\* run_step on a step of task t: blocking, so nothing else runs meanwhile
RunStep(t) ==
    /\ engine = "constructed"
    /\ tasks[t].pc = "idle"
    /\ n_steps < MaxSteps
    /\ \E s \in 1..Len(tasks[t].steps), chat_response \in TaskChatResponses,
          result \in TaskToolResults :
         LET tool_result == IF NeedsTool(tasks[t].input, chat_response)
                            THEN result ELSE NoToolResult
         IN  Complete(t, s,
                      _run_step(LiveVia(t, s), _get_tools, tools_arg,
                                tasks[t].input, max_iterations, chat_response,
                                tool_result, Len(tasks[t].steps) + 1),
                      chat_response, tool_result)
    /\ n_steps' = n_steps + 1
    /\ UNCHANGED <<config, engine, _get_tools, single>>

\* arun_step on step s of task t, up to the await of llm.achat (line 399)
ARunStepBegin(t) ==
    /\ engine = "constructed"
    /\ tasks[t].pc = "idle"
    /\ n_steps < MaxSteps
    /\ \E s \in 1..Len(tasks[t].steps) :
         tasks' = [tasks EXCEPT ![t] =
                      [@ EXCEPT !.pc = "llm", !.step = s,
                                !.at_call = LiveVia(t, s)]]
    /\ n_steps' = n_steps + 1
    /\ UNCHANGED <<config, engine, _get_tools, heap, single>>

\* the model answers: the step runs on to the await of tool.acall (line 241)
\* or, when no tool is to be called, to its end
ARunStepModelReturns(t) ==
    /\ tasks[t].pc = "llm"
    /\ \E chat_response \in TaskChatResponses :
         IF NeedsTool(tasks[t].input, chat_response)
         THEN LET ref == tasks[t].steps[tasks[t].step]
                  held == SuspendAtTool(LiveVia(t, tasks[t].step),
                                        _extract_reasoning_step(chat_response))
              IN  /\ heap' = [heap EXCEPT ![ref] =
                                 [sources |-> held.sources,
                                  current_reasoning |-> held.current_reasoning]]
                  /\ tasks' = [tasks EXCEPT ![t] =
                                 [@ EXCEPT !.pc = "tool",
                                           !.memory = held.memory,
                                           !.pending = chat_response]]
         ELSE Complete(t, tasks[t].step,
                       _arun_step(LiveVia(t, tasks[t].step), _get_tools,
                                  tools_arg, tasks[t].input, max_iterations,
                                  chat_response, NoToolResult,
                                  Len(tasks[t].steps) + 1),
                       chat_response, NoToolResult)
    /\ UNCHANGED <<config, engine, _get_tools, n_steps, single>>

\* the tool returns or raises: the step runs to its end (lines 241-250 and
\* 404-428) on the lists as they are now
ARunStepToolReturns(t) ==
    /\ tasks[t].pc = "tool"
    /\ \E tool_result \in TaskToolResults :
         Complete(t, tasks[t].step,
                  _arun_step(LiveVia(t, tasks[t].step), _get_tools, tools_arg,
                             tasks[t].input, max_iterations, tasks[t].pending,
                             tool_result, Len(tasks[t].steps) + 1),
                  tasks[t].pending, tool_result)
    /\ UNCHANGED <<config, engine, _get_tools, n_steps, single>>

\* the suspended step is cancelled: CancelledError is raised at its await
\* (line 399 or 241) and leaves arun_step through no handler
ARunStepCancel(t) ==
    /\ tasks[t].pc \in {"llm", "tool"}
    /\ tasks' = [tasks EXCEPT ![t] =
                    [@ EXCEPT !.pc = "idle",
                              !.pending = [content |-> None],
                              !.out = [error |-> CancelledError,
                                       is_last |-> FALSE,
                                       at |-> tasks[t].pc]]]
    /\ UNCHANGED <<config, engine, _get_tools, n_steps, heap, single>>

InitTasks ==
    /\ Init
    /\ task_input = "q1"
    /\ memory0 = << >>

NextTasks ==
    \/ __init__
    \/ \E t \in TaskIds : InitializeStep(t)
    \/ \E t \in TaskIds : RunStep(t)
    \/ \E t \in TaskIds : ARunStepBegin(t)
    \/ \E t \in TaskIds : ARunStepModelReturns(t)
    \/ \E t \in TaskIds : ARunStepToolReturns(t)
    \/ \E t \in TaskIds : ARunStepCancel(t)

SpecTasks == InitTasks /\ [][NextTasks]_vars

\* the step_state and memory a task has after the answers in log when it
\* runs alone, one blocking step after the other
RECURSIVE Alone(_, _)
Alone(input, log) ==
    IF log = << >>
    THEN StepState(<< >>, << >>, << >>)
    ELSE _run_step(Alone(input, SubSeq(log, 1, Len(log) - 1)), _get_tools,
                   tools_arg, input, max_iterations,
                   log[Len(log)].chat_response, log[Len(log)].tool_result,
                   0).state

\* C13: with two tasks whose steps interleave, also at the awaits of the
\* model and of the tool, a transition of one task leaves the other task's
\* sources and current_reasoning as they were, and each task's lists are the
\* ones it gets running alone on the same model and tool answers.
C13_TaskIsolation ==
    [][\A t \in TaskIds :
         /\ \A u \in TaskIds \ {t} :
              (tasks'[t] # tasks[t] /\ tasks[u].steps # << >>)
                => /\ tasks'[u] = tasks[u]
                   /\ LiveVia(u, 1)' = LiveVia(u, 1)
         /\ tasks'[t].steps # << >>
              => LiveVia(t, Len(tasks[t].steps))'
                   = Alone(tasks'[t].input, tasks'[t].log)]_vars

\* C13 witness: both tasks are suspended at their tool call, one of them in
\* its second step
C13_Witness ==
    /\ tasks["t1"].pc = "tool" /\ tasks["t2"].pc = "tool"
    /\ Len(LiveVia("t1", 1).current_reasoning) >= 2
    /\ LiveVia("t2", 1).current_reasoning = << >>

\* C14: a suspending step waits only at the model call and at the tool call;
\* while it waits there, and after it is cancelled there, sources,
\* current_reasoning and memory are as the step found them, and sources and
\* trace always pair up.
C14_CancelLeavesState ==
    \A t \in TaskIds :
      /\ tasks[t].pc \in {"idle", "llm", "tool"}
      /\ tasks[t].steps # << >>
           => /\ Paired(LiveVia(t, 1).current_reasoning, LiveVia(t, 1).sources)
              /\ tasks[t].pc # "idle"
                   => LiveVia(t, tasks[t].step) = tasks[t].at_call
              /\ tasks[t].out.error = CancelledError
                   => /\ tasks[t].out.at \in {"llm", "tool"}
                      /\ tasks[t].pc = "idle"
                           => LiveVia(t, tasks[t].step) = tasks[t].at_call

\* C14 witness: mid-task, a step was cancelled while it awaited its tool
C14_Witness ==
    /\ tasks["t1"].pc = "idle"
    /\ tasks["t1"].out.error = CancelledError /\ tasks["t1"].out.at = "tool"
    /\ Len(LiveVia("t1", 1).current_reasoning) >= 2

\* C15: every step of a task holds the same step_state, so through each of
\* them one reads all that the task's steps have appended, and the trace a
\* step hands to the prompt formatter holds the entries of all steps before.
C15_StepStateShared ==
    \A t \in TaskIds :
      /\ \A s \in 1..Len(tasks[t].steps) :
           /\ tasks[t].steps[s] = tasks[t].steps[1]
           /\ LiveVia(t, s).sources
                = Alone(tasks[t].input, tasks[t].log).sources
           /\ LiveVia(t, s).current_reasoning
                = Alone(tasks[t].input, tasks[t].log).current_reasoning
      /\ tasks[t].pc # "idle"
           => tasks[t].at_call.current_reasoning
                = Alone(tasks[t].input, tasks[t].log).current_reasoning

\* C15 witness: the third step of a task has been proposed after two action
\* steps, the second of them run through the follow-up step
C15_Witness ==
    /\ Len(tasks["t1"].steps) = 3 /\ tasks["t1"].step = 2
    /\ Len(LiveVia("t1", 1).current_reasoning) = 4
    /\ Len(LiveVia("t1", 1).sources) = 2

====
